---- MODULE Spec2Model ----
(***************************************************************************)
(* A state-machine model of the PDF table extractor scripts                *)
(*   src/scripts/extract_table.py     (header handling, "script 1")        *)
(*   src/scripts/extract_table_a2.py  (no header handling, "script a2")    *)
(*                                                                         *)
(* Python strings are modelled as sequences of one-character strings, so   *)
(* that strip(), lower(), split(), int() and join() are computed and not   *)
(* assumed.  A table cell is a Python object: None, the float NaN, a str   *)
(* or an int.  A DataFrame is its column index and its rows.               *)
(***************************************************************************)
EXTENDS Integers, Sequences, FiniteSets, TLC

VARIABLES
    script,                 \* which entry point runs: "extract_table" or "extract_table_a2"
    pc,                     \* position of the run (or of the function call)
    dependenciesAvailable,  \* DEPENDENCIES_AVAILABLE, set at import time
    pagesArg,               \* args.pages, a string
    pageTokens,             \* how pagesArg was written (the tokens it was rendered from)
    headerRows,             \* args.header_rows
    flattenHeaders,         \* args.flatten_headers
    headerSep,              \* args.header_sep
    tempDir,                \* the temporary download directory: "none", "exists", "removed"
    pagesList,              \* pages_list of extract_tables
    libraryCalled,          \* whether tabula.read_pdf has been called
    tables,                 \* the DataFrames tabula.read_pdf returned
    processed,              \* processed_tables of extract_tables
    combined,               \* combined_df (its rows)
    csv,                    \* the output CSV file
    exitStatus,             \* the exit status of the process, -1 while it runs
    events,                 \* the phases the run went through, with their outcome
    df,                     \* the argument of a call of _apply_multirow_header
    arrays,                 \* the local `arrays` of that call
    out                     \* what the call returned

vars == <<script, pc, dependenciesAvailable, pagesArg, pageTokens, headerRows,
          flattenHeaders, headerSep, tempDir, pagesList, libraryCalled, tables,
          processed, combined, csv, exitStatus, events, df, arrays, out>>

----------------------------------------------------------------------------
(* Bounds of the model *)

\* a generated header table holds at most MaxCells cells (rows * columns)
MaxCells == 6
\* single-row tables over every kind of cell have at most MaxWideCols columns
MaxWideCols == 3
\* --header-rows ranges over -1 .. MaxHeaderRows
MaxHeaderRows == 2
\* page numbers in a generated page spec are 1 .. MaxPage
MaxPage == 3
\* a generated page spec has at most MaxTokens comma-separated tokens
MaxTokens == 2
\* tabula.read_pdf returns at most MaxTables tables in a run
MaxTables == 2
\* a table extracted in a run has at most MaxRunRows rows
MaxRunRows == 2
\* the --pages value of a run has at most MaxRunTokens tokens (written without
\* spaces: the spaces are the subject of SpecPages)
MaxRunTokens == 1
\* page numbers in the --pages value of a run are 1 .. MaxRunPage
MaxRunPage == 2

----------------------------------------------------------------------------
(* Python strings *)

Max(S) == CHOOSE x \in S : \A y \in S : y <= x

DigitChars == <<"0", "1", "2", "3", "4", "5", "6", "7", "8", "9">>

IsSpace(c) == c = " "

\* str.lower() on the letters the model uses
LowerOf == [c \in {"A", "B", "E", "L", "N", "O"} |->
              CASE c = "A" -> "a" [] c = "B" -> "b" [] c = "E" -> "e"
                [] c = "L" -> "l" [] c = "N" -> "n" [] c = "O" -> "o"]

LowerChar(c) == IF c \in DOMAIN LowerOf THEN LowerOf[c] ELSE c

StrLower(s) == [i \in 1..Len(s) |-> LowerChar(s[i])]

\* str.strip(): drop the leading and the trailing whitespace
Strip(s) ==
    LET keep == {i \in 1..Len(s) : ~IsSpace(s[i])}
    IN  IF keep = {} THEN <<>>
        ELSE SubSeq(s, CHOOSE i \in keep : \A j \in keep : i <= j, Max(keep))

\* str(n) for an int n >= 0
RECURSIVE IntToStr(_)
IntToStr(n) == IF n < 10 THEN <<DigitChars[n + 1]>>
               ELSE IntToStr(n \div 10) \o <<DigitChars[(n % 10) + 1]>>

\* sep.join(parts)
RECURSIVE Join(_, _)
Join(sep, parts) ==
    IF parts = <<>> THEN <<>>
    ELSE IF Len(parts) = 1 THEN parts[1]
    ELSE parts[1] \o sep \o Join(sep, Tail(parts))

\* str.split(d) for a one-character delimiter d: always at least one piece
RECURSIVE Split(_, _)
Split(s, d) ==
    LET at == {i \in 1..Len(s) : s[i] = d}
    IN  IF at = {} THEN <<s>>
        ELSE LET k == CHOOSE i \in at : \A j \in at : i <= j
             IN  <<SubSeq(s, 1, k - 1)>> \o Split(SubSeq(s, k + 1, Len(s)), d)

DigitValue(c) == (CHOOSE k \in 1..10 : DigitChars[k] = c) - 1

IsDigit(c) == \E k \in 1..10 : DigitChars[k] = c

RECURSIVE DigitsValue(_)
DigitsValue(s) == IF s = <<>> THEN 0
                  ELSE 10 * DigitsValue(SubSeq(s, 1, Len(s) - 1)) + DigitValue(s[Len(s)])

\* int(s): surrounding whitespace is ignored, an optional sign, then digits only;
\* anything else raises ValueError
IntParses(s) ==
    LET t == Strip(s)
        body == IF t # <<>> /\ t[1] \in {"+", "-"} THEN Tail(t) ELSE t
    IN  body # <<>> /\ \A i \in 1..Len(body) : IsDigit(body[i])

IntOf(s) ==
    LET t == Strip(s)
    IN  IF t[1] = "-" THEN 0 - DigitsValue(Tail(t))
        ELSE IF t[1] = "+" THEN DigitsValue(Tail(t))
        ELSE DigitsValue(t)

----------------------------------------------------------------------------
(* Cells and DataFrames *)

NoneV == [kind |-> "None", s |-> <<>>, n |-> 0]
NaNV == [kind |-> "NaN", s |-> <<>>, n |-> 0]
StrV(s) == [kind |-> "Str", s |-> s, n |-> 0]
IntV(n) == [kind |-> "Int", s |-> <<>>, n |-> n]

\* str(v) of a cell that is not None
PyStr(v) == CASE v.kind = "Str" -> v.s
              [] v.kind = "NaN" -> <<"n", "a", "n">>
              [] v.kind = "Int" -> IntToStr(v.n)
              [] OTHER -> <<"N", "o", "n", "e">>

\* pandas.isna(v)
IsNA(v) == v.kind \in {"None", "NaN"}

FlatIndex(labels) == [multi |-> FALSE, levels |-> <<labels>>]
MultiIndex(levels) == [multi |-> TRUE, levels |-> levels]

\* df.shape[1]
NCols(d) == Len(d.columns.levels[1])

\* the column labels tabula gives a table: one string per column
DefaultColumns(ncols) == FlatIndex([i \in 1..ncols |-> <<"c">> \o IntToStr(i - 1)])

DataFrame(ncols, rows) == [columns |-> DefaultColumns(ncols), rows |-> rows]

----------------------------------------------------------------------------
(* _normalize_header_values and _apply_multirow_header (extract_table.py) *)

NanToken == <<"n", "a", "n">>
NoneToken == <<"n", "o", "n", "e">>

\* one iteration of the loop of _normalize_header_values
NormalizeCell(v) ==
    LET s0 == IF v.kind = "None" THEN <<>> ELSE PyStr(v)
        s1 == Strip(s0)
    IN  IF StrLower(s1) \in {NanToken, NoneToken} THEN <<>> ELSE s1

NormalizeHeaderValues(values) == [i \in 1..Len(values) |-> NormalizeCell(values[i])]

\* DataFrame.ffill(axis=1) on one row: a cell pandas holds to be missing (None,
\* NaN) takes the last cell before it that is not missing; every other cell,
\* the empty string included, is left as it is
FfillRow(row) ==
    [i \in 1..Len(row) |->
        IF ~IsNA(row[i]) THEN row[i]
        ELSE LET prev == {j \in 1..(i - 1) : ~IsNA(row[j])}
             IN  IF prev = {} THEN row[i] ELSE row[Max(prev)]]

\* a mutant of Reconcile: truncates one label too early
Reconcile_short(arr, ncols) ==
    IF Len(arr) < ncols - 1 THEN arr \o [i \in 1..(ncols - 1 - Len(arr)) |-> <<>>]
    ELSE SubSeq(arr, 1, ncols - 1)

\* line 87: pad with "" or truncate to ncols labels
Reconcile(arr, ncols) ==
    IF Len(arr) < ncols THEN arr \o [i \in 1..(ncols - Len(arr)) |-> <<>>]
    ELSE SubSeq(arr, 1, ncols)

\* lines 76-87: the header rows cleaned (apply stores Python strs), forward
\* filled, listed and reconciled with the number of columns
HeaderArrays(d, header_rows) ==
    LET headers == [r \in 1..header_rows |->
                       FfillRow([i \in 1..Len(d.rows[r]) |->
                                    StrV(NormalizeHeaderValues(d.rows[r])[i])])]
    IN  [r \in 1..header_rows |->
            Reconcile([i \in 1..Len(headers[r]) |-> headers[r][i].s], NCols(d))]

\* a mutant of FlatCols: the synthetic label counts columns from 1
FlatCols_oneBased(arrs, ncols, header_rows, sep) ==
    [c \in 1..ncols |->
        LET parts == SelectSeq([l \in 1..header_rows |-> arrs[l][c]],
                               LAMBDA p : p # <<>>)
        IN  IF parts # <<>> THEN Join(sep, parts)
            ELSE <<"c", "o", "l", "_">> \o IntToStr(c)]

\* lines 93-97 (and 105-109): the flattened label of every column; column c of
\* the model is col_idx = c - 1 of the code
FlatCols(arrs, ncols, header_rows, sep) ==
    [c \in 1..ncols |->
        LET parts == SelectSeq([l \in 1..header_rows |-> arrs[l][c]],
                               LAMBDA p : p # <<>>)
        IN  IF parts # <<>> THEN Join(sep, parts)
            ELSE <<"c", "o", "l", "_">> \o IntToStr(c - 1)]

\* arrays[level][col_idx] raises IndexError when a level is shorter than ncols
FlatColsRaises(arrs, ncols) == \E l \in 1..Len(arrs) : Len(arrs[l]) < ncols

\* pd.MultiIndex.from_arrays raises on no array and on arrays of different lengths
MultiIndexFromArrays(arrs) ==
    IF arrs = <<>> \/ \E l \in 1..Len(arrs) : Len(arrs[l]) # Len(arrs[1])
    THEN [raised |-> TRUE, index |-> FlatIndex(<<>>)]
    ELSE [raised |-> FALSE, index |-> MultiIndex(arrs)]

\* data.columns = index raises ValueError (length mismatch) unless the index
\* has one label per column of data
SetColumns(data, index) ==
    IF Len(index.levels[1]) # NCols(data)
    THEN [raised |-> TRUE, df |-> data]
    ELSE [raised |-> FALSE, df |-> [columns |-> index, rows |-> data.rows]]

\* a mutant of PassThrough: header_rows = 0 is not passed through
PassThrough_strict(d, header_rows) ==
    header_rows < 0 \/ Len(d.rows) < header_rows

\* lines 69-74: the two early returns of _apply_multirow_header
PassThrough(d, header_rows) ==
    header_rows <= 0 \/ Len(d.rows) < header_rows

\* a mutant of DataRows: the last header row is kept as data
DataRows_keepOne(d, header_rows) ==
    SubSeq(d.rows, header_rows, Len(d.rows))

\* line 89: df.iloc[header_rows:] with the index reset
DataRows(d, header_rows) ==
    SubSeq(d.rows, header_rows + 1, Len(d.rows))

\* lines 91-110: the flattened labels, assigned to data.columns
AssignFlat(data, arrs, header_rows, sep) ==
    IF FlatColsRaises(arrs, NCols(data))
    THEN [raised |-> TRUE, df |-> data]
    ELSE SetColumns(data, FlatIndex(FlatCols(arrs, NCols(data), header_rows, sep)))

\* _apply_multirow_header: what it returns, or that it raised
ApplyMultirowHeader(d, header_rows, flatten, sep) ==
    IF PassThrough(d, header_rows) THEN [raised |-> FALSE, df |-> d]
    ELSE LET arrs == HeaderArrays(d, header_rows)
             data == [columns |-> d.columns, rows |-> DataRows(d, header_rows)]
         IN  IF flatten THEN AssignFlat(data, arrs, header_rows, sep)
             ELSE LET mi == MultiIndexFromArrays(arrs)
                      set == IF mi.raised THEN [raised |-> TRUE, df |-> data]
                             ELSE SetColumns(data, mi.index)
                  IN  IF set.raised
                      THEN AssignFlat(data, arrs, header_rows, sep)
                      ELSE set

----------------------------------------------------------------------------
(* Values of the variables a specification does not use *)

NoFrame == [columns |-> FlatIndex(<<>>), rows |-> <<>>]
NoResult == [raised |-> FALSE, df |-> NoFrame]
NoPages == [all |-> FALSE, pages |-> <<>>]
NoCsv == [written |-> FALSE, rows |-> <<>>]
NotWritten == [all |-> FALSE, tokens |-> <<>>, pad |-> 0, upper |-> <<FALSE, FALSE, FALSE>>]

\* --header-sep: its default (line 182) and the one of the docstring (line 14)
DefaultSep == <<" ", "|", " ">>
DashSep == <<" ", "-", " ">>
HeaderSeps == {DefaultSep, DashSep}

----------------------------------------------------------------------------
(* SpecHeader: calls of _apply_multirow_header on bounded tables *)

\* the shapes <<rows, columns>> of the generated tables: columns >= 1 and at
\* most maxCells cells
Shapes(maxCells) ==
    {x \in (0..maxCells) \X (1..maxCells) : x[1] * x[2] <= maxCells}

CoreCells == {NaNV, StrV(<<" ">>), StrV(<<"A">>), StrV(<<"B">>)}

\* one cell of every kind the cleaning tells apart
AllCells == {NoneV, NaNV, StrV(<<"N", "a", "N">>), StrV(<<"n", "o", "n", "e">>),
             StrV(<<" ">>), StrV(<<>>), StrV(<<" ", "A", " ">>), StrV(<<"B">>), IntV(7)}

\* the documented table: header rows ["A", "", "B"] and ["x", "y", "z"], one data row
ExampleTable ==
    DataFrame(3, << <<StrV(<<"A">>), StrV(<<>>), StrV(<<"B">>)>>,
                    <<StrV(<<"x">>), StrV(<<"y">>), StrV(<<"z">>)>>,
                    <<IntV(1), IntV(2), IntV(3)>> >>)

\* the tables _apply_multirow_header is called on: every table over CoreCells
\* of at most MaxCells cells, every single-row table over AllCells of at most
\* MaxWideCols columns, and the documented one
IsHeaderInput(d) ==
    \/ \E x \in Shapes(MaxCells) :
          \E rows \in [1..x[1] -> [1..x[2] -> CoreCells]] : d = DataFrame(x[2], rows)
    \/ \E c \in 1..MaxWideCols :
          \E row \in [1..c -> AllCells] : d = DataFrame(c, <<row>>)
    \/ d = ExampleTable

InitHeader ==
    /\ pc = "call"
    /\ IsHeaderInput(df)
    /\ headerRows \in (0 - 1)..MaxHeaderRows
    /\ flattenHeaders \in BOOLEAN
    /\ headerSep \in HeaderSeps
    /\ arrays = <<>>
    /\ out = NoResult
    /\ script = "extract_table"
    /\ dependenciesAvailable = TRUE
    /\ pagesArg = <<>>
    /\ pageTokens = NotWritten
    /\ tempDir = "none"
    /\ pagesList = NoPages
    /\ libraryCalled = FALSE
    /\ tables = <<>>
    /\ processed = <<>>
    /\ combined = <<>>
    /\ csv = NoCsv
    /\ exitStatus = 0 - 1
    /\ events = <<>>

\* one call of _apply_multirow_header(df, header_rows, flatten, sep)
CallApplyMultirowHeader ==
    /\ pc = "call"
    /\ pc' = "returned"
    /\ out' = ApplyMultirowHeader(df, headerRows, flattenHeaders, headerSep)
    /\ arrays' = IF PassThrough(df, headerRows) THEN <<>>
                 ELSE HeaderArrays(df, headerRows)
    /\ UNCHANGED <<script, dependenciesAvailable, pagesArg, pageTokens, headerRows,
                   flattenHeaders, headerSep, tempDir, pagesList, libraryCalled,
                   tables, processed, combined, csv, exitStatus, events, df>>

NextHeader == CallApplyMultirowHeader

SpecHeader == InitHeader /\ [][NextHeader]_vars

----------------------------------------------------------------------------
(* Properties of _apply_multirow_header *)

\* the call took the header path: header_rows >= 1 and the table has the rows
HeaderCase == pc = "returned" /\ headerRows >= 1 /\ Len(df.rows) >= headerRows

\* horizontal fill as documented: an empty label takes the nearest non-empty
\* label to its left, if there is one
FilledRow(row) ==
    [i \in 1..Len(row) |->
        IF row[i] # <<>> THEN row[i]
        ELSE LET left == {j \in 1..(i - 1) : row[j] # <<>>}
             IN  IF left = {} THEN <<>> ELSE row[Max(left)]]

FilledLevel(l) == FilledRow(NormalizeHeaderValues(df.rows[l]))

\* C1: with header_rows >= 1 and enough rows, every header row is cleaned and
\* then filled horizontally: the labels of level l are the cleaned cells of row
\* l, each empty one replaced by the nearest non-empty one to its left; the
\* flattened labels are built from these filled levels.
C1_HorizontalFill ==
    HeaderCase =>
        /\ ~out.raised
        /\ IF out.df.columns.multi
           THEN \A l \in 1..headerRows : out.df.columns.levels[l] = FilledLevel(l)
           ELSE out.df.columns.levels[1] =
                    FlatCols([l \in 1..headerRows |-> FilledLevel(l)],
                             NCols(df), headerRows, headerSep)

\* C2: with header_rows <= 0, or fewer rows than header_rows, the call returns
\* its argument unchanged (rows and column labels) and does not raise.
C2_PassThrough ==
    (pc = "returned" /\ (headerRows <= 0 \/ Len(df.rows) < headerRows)) =>
        out = [raised |-> FALSE, df |-> df]

C2_Witness ==
    /\ pc = "returned"
    /\ headerRows = 2
    /\ Len(df.rows) = 1
    /\ flattenHeaders
    /\ out.df = df

\* the non-empty fragments of column c in the levels 1..l, top to bottom
RECURSIVE Fragments(_, _)
Fragments(c, l) ==
    IF l = 0 THEN <<>>
    ELSE Fragments(c, l - 1) \o (IF arrays[l][c] = <<>> THEN <<>> ELSE <<arrays[l][c]>>)

RECURSIVE Joined(_, _)
Joined(parts, sep) ==
    IF Len(parts) = 0 THEN <<>>
    ELSE IF Len(parts) = 1 THEN parts[1]
    ELSE Joined(SubSeq(parts, 1, Len(parts) - 1), sep) \o sep \o parts[Len(parts)]

\* C3: flattened, the label of column i (0-based) is its non-empty header
\* fragments, top to bottom, joined with the separator, and col_<i> when every
\* fragment of the column is empty.  A fragment of level l at column i is a
\* label of the header levels the function built: empty, or the cleaned text
\* of a cell of header row l at column i or to its left.
C3_FlattenedLabels ==
    (HeaderCase /\ flattenHeaders) =>
        /\ ~out.raised
        /\ ~out.df.columns.multi
        /\ Len(out.df.columns.levels) = 1
        /\ Len(out.df.columns.levels[1]) = NCols(df)
        /\ \A c \in 1..NCols(df) :
              /\ \A l \in 1..headerRows :
                    arrays[l][c] \in {<<>>} \cup
                        {NormalizeCell(df.rows[l][j]) : j \in 1..c}
              /\ out.df.columns.levels[1][c] =
                    IF Fragments(c, headerRows) = <<>>
                    THEN <<"c", "o", "l", "_", DigitChars[c]>>
                    ELSE Joined(Fragments(c, headerRows), headerSep)

C3_Witness ==
    /\ HeaderCase
    /\ flattenHeaders
    /\ headerRows = 2
    /\ NCols(df) = 3
    /\ Len(Fragments(1, 2)) = 2
    /\ Len(Fragments(2, 2)) = 1
    /\ out.df.columns.levels[1][3] = <<"c", "o", "l", "_", "2">>

\* C4: on the header path, flattened or multi-level, the call does not raise
\* and every level of the returned labels has exactly as many labels as the
\* table has columns, which is the length of every returned data row.
C4_LabelLengths ==
    HeaderCase =>
        /\ ~out.raised
        /\ Len(out.df.columns.levels) >= 1
        /\ \A l \in 1..Len(out.df.columns.levels) :
              Len(out.df.columns.levels[l]) = NCols(df)
        /\ \A r \in 1..Len(out.df.rows) : Len(out.df.rows[r]) = NCols(df)
        /\ Len(out.df.rows) = Len(df.rows) - headerRows

C4_Witness ==
    /\ HeaderCase
    /\ ~flattenHeaders
    /\ out.df.columns.multi
    /\ headerRows = 2
    /\ Len(out.df.columns.levels) = 2
    /\ Len(out.df.rows) = 1
    /\ NCols(df) = 2

----------------------------------------------------------------------------
(* Page-spec parsing in extract_tables (both scripts) *)

\* a mutant of PageRange: the end of the range is left out
PageRange_exclusive(start, end) ==
    IF end - 1 < start THEN <<>> ELSE [i \in 1..(end - start) |-> start + i - 1]

\* list(range(start, end + 1))
PageRange(start, end) ==
    IF end < start THEN <<>> ELSE [i \in 1..(end - start + 1) |-> start + i - 1]

\* one iteration of the loop over pages.split(","): the pages of one token, or
\* that it raised ValueError (int() of a piece that is no number, or a number
\* of pieces other than two in `start, end = map(int, ...)`)
ParsePageSpec(page_spec) ==
    LET t == Strip(page_spec)
    IN  IF \E i \in 1..Len(t) : t[i] = "-"
        THEN LET pieces == Split(t, "-")
             IN  IF Len(pieces) # 2 \/ ~IntParses(pieces[1]) \/ ~IntParses(pieces[2])
                 THEN [raised |-> TRUE, pages |-> <<>>]
                 ELSE [raised |-> FALSE,
                       pages |-> PageRange(IntOf(pieces[1]), IntOf(pieces[2]))]
        ELSE IF IntParses(t) THEN [raised |-> FALSE, pages |-> <<IntOf(t)>>]
        ELSE [raised |-> TRUE, pages |-> <<>>]

\* the loop over the tokens: the first token that raises ends it
RECURSIVE ParseSpecs(_)
ParseSpecs(specs) ==
    IF specs = <<>> THEN [raised |-> FALSE, pages |-> <<>>]
    ELSE LET first == ParsePageSpec(specs[1])
             rest == ParseSpecs(Tail(specs))
         IN  IF first.raised \/ rest.raised THEN [raised |-> TRUE, pages |-> <<>>]
             ELSE [raised |-> FALSE, pages |-> first.pages \o rest.pages]

AllWord == <<"a", "l", "l">>

\* extract_table.py, lines 119-130: pages_list, or that the parsing raised
ParsePages(pages) ==
    IF StrLower(pages) = AllWord
    THEN [raised |-> FALSE, all |-> TRUE, pages |-> <<>>]
    ELSE LET r == ParseSpecs(Split(pages, ","))
         IN  [raised |-> r.raised, all |-> FALSE, pages |-> r.pages]

\* extract_table_a2.py, lines 45-56: the same parsing
ParsePagesA2(pages) ==
    IF StrLower(pages) = AllWord
    THEN [raised |-> FALSE, all |-> TRUE, pages |-> <<>>]
    ELSE LET r == ParseSpecs(Split(pages, ","))
         IN  [raised |-> r.raised, all |-> FALSE, pages |-> r.pages]

ParsePagesOf(s, pages) ==
    IF s = "extract_table" THEN ParsePages(pages) ELSE ParsePagesA2(pages)

Scripts == {"extract_table", "extract_table_a2"}

----------------------------------------------------------------------------
(* How a --pages value is written *)

\* a token is a page number, a range lo-hi (in either order), nothing, a word,
\* or three numbers with two hyphens
PageToken(lo) == [kind |-> "page", lo |-> lo, hi |-> lo]
RangeToken(lo, hi) == [kind |-> "range", lo |-> lo, hi |-> hi]
EmptyToken == [kind |-> "empty", lo |-> 0, hi |-> 0]
WordToken == [kind |-> "word", lo |-> 0, hi |-> 0]
MultiToken(lo) == [kind |-> "multi", lo |-> lo, hi |-> lo]

Tokens(maxPage) ==
    {PageToken(n) : n \in 1..maxPage}
        \cup {RangeToken(x[1], x[2]) : x \in (1..maxPage) \X (1..maxPage)}
        \cup {MultiToken(n) : n \in 1..maxPage}
        \cup {EmptyToken, WordToken}

RenderToken(t) ==
    CASE t.kind = "page" -> IntToStr(t.lo)
      [] t.kind = "range" -> IntToStr(t.lo) \o <<"-">> \o IntToStr(t.hi)
      [] t.kind = "multi" ->
             IntToStr(t.lo) \o <<"-">> \o IntToStr(t.hi) \o <<"-">> \o IntToStr(t.lo)
      [] t.kind = "word" -> <<"x">>
      [] OTHER -> <<>>

Spaces(n) == [i \in 1..n |-> " "]

\* the tokens, each with `pad` spaces on both sides, separated by commas
RenderTokens(tokens, pad) ==
    Join(<<",">>, [i \in 1..Len(tokens) |->
                      Spaces(pad) \o RenderToken(tokens[i]) \o Spaces(pad)])

\* "all" in the letter case `upper` gives (TRUE: upper case), letter by letter
RenderAll(upper) ==
    [i \in 1..3 |-> IF upper[i] THEN (IF i = 1 THEN "A" ELSE "L") ELSE AllWord[i]]

WrittenAll(upper) == [all |-> TRUE, tokens |-> <<>>, pad |-> 0, upper |-> upper]

NoCase == [i \in 1..3 |-> FALSE]

WrittenTokens(tokens, pad) ==
    [all |-> FALSE, tokens |-> tokens, pad |-> pad, upper |-> NoCase]

RenderPages(w) ==
    IF w.all THEN RenderAll(w.upper) ELSE RenderTokens(w.tokens, w.pad)

\* the documented value "1,3,5-7"
ExampleTokens == <<PageToken(1), PageToken(3), RangeToken(5, 7)>>

\* the --pages values of at most maxTokens tokens over pages 1..maxPage, with
\* a number of spaces in `pads` around every token; "all" in every letter
\* case; the documented value
IsPagesInput(w, maxTokens, maxPage, pads) ==
    \/ \E k \in 1..maxTokens : \E tokens \in [1..k -> Tokens(maxPage)] :
          \E pad \in pads : w = WrittenTokens(tokens, pad)
    \/ \E upper \in [1..3 -> BOOLEAN] : w = WrittenAll(upper)
    \/ \E pad \in pads : w = WrittenTokens(ExampleTokens, pad)

----------------------------------------------------------------------------
(* SpecPages: the page-spec parsing of both scripts on bounded --pages values *)

InitPages ==
    /\ pc = "call"
    /\ script \in Scripts
    /\ IsPagesInput(pageTokens, MaxTokens, MaxPage, {0, 1})
    /\ pagesArg = RenderPages(pageTokens)
    /\ pagesList = NoPages
    /\ dependenciesAvailable = TRUE
    /\ headerRows = 0
    /\ flattenHeaders = FALSE
    /\ headerSep = DefaultSep
    /\ tempDir = "none"
    /\ libraryCalled = FALSE
    /\ tables = <<>>
    /\ processed = <<>>
    /\ combined = <<>>
    /\ csv = NoCsv
    /\ exitStatus = 0 - 1
    /\ events = <<>>
    /\ df = NoFrame
    /\ arrays = <<>>
    /\ out = NoResult

\* the parsing of args.pages at the head of extract_tables
CallParsePages ==
    /\ pc = "call"
    /\ LET r == ParsePagesOf(script, pagesArg)
       IN  /\ pc' = IF r.raised THEN "raised" ELSE "returned"
           /\ pagesList' = [all |-> r.all, pages |-> r.pages]
    /\ UNCHANGED <<script, dependenciesAvailable, pagesArg, pageTokens, headerRows,
                   flattenHeaders, headerSep, tempDir, libraryCalled, tables,
                   processed, combined, csv, exitStatus, events, df, arrays, out>>

NextPages == CallParsePages

SpecPages == InitPages /\ [][NextPages]_vars

\* a token the documentation allows: a page number, or a range lo-hi with lo <= hi
WellFormed(t) == t.kind = "page" \/ (t.kind = "range" /\ t.lo <= t.hi)

\* the pages lo, lo+1, ..., hi of every token, in the order of the tokens
RECURSIVE ExpandTokens(_)
ExpandTokens(tokens) ==
    IF tokens = <<>> THEN <<>>
    ELSE ExpandTokens(SubSeq(tokens, 1, Len(tokens) - 1))
            \o LET t == tokens[Len(tokens)]
               IN  [i \in 1..(t.hi - t.lo + 1) |-> t.lo + (i - 1)]

\* C7: "all" in any letter case parses to the sentinel "all"; a value made of
\* page numbers and ranges lo-hi (lo <= hi), separated by commas, with or
\* without spaces around the tokens, parses without error to the pages of the
\* tokens in order, every range expanded to lo, lo+1, ..., hi.
C7_PageSpecParsing ==
    (pc # "call") =>
        /\ pageTokens.all => (pc = "returned" /\ pagesList = [all |-> TRUE, pages |-> <<>>])
        /\ (~pageTokens.all /\ \A i \in 1..Len(pageTokens.tokens) :
                                   WellFormed(pageTokens.tokens[i]))
               => /\ pc = "returned"
                  /\ pagesList = [all |-> FALSE, pages |-> ExpandTokens(pageTokens.tokens)]

C7_Witness ==
    /\ pc = "returned"
    /\ script = "extract_table_a2"
    /\ pagesArg = <<"1", ",", "3", ",", "5", "-", "7">>
    /\ pagesList = [all |-> FALSE, pages |-> <<1, 3, 5, 6, 7>>]

----------------------------------------------------------------------------
(* Spec: a run of main() of either script, after parse_args *)

\* a table tabula extracted: two columns, row j holding the number j and a
\* missing cell
RunTable(n) == DataFrame(2, [j \in 1..n |-> <<IntV(j), NaNV>>])

RECURSIVE ConcatRows(_)
ConcatRows(frames) ==
    IF frames = <<>> THEN <<>>
    ELSE frames[1].rows \o ConcatRows(Tail(frames))

Init ==
    /\ pc = "main"
    /\ script \in Scripts
    /\ dependenciesAvailable \in BOOLEAN
    /\ IsPagesInput(pageTokens, MaxRunTokens, MaxRunPage, {0})
    /\ pagesArg = RenderPages(pageTokens)
    /\ IF script = "extract_table"
       THEN headerRows \in 0..MaxHeaderRows /\ flattenHeaders \in BOOLEAN
       ELSE headerRows = 0 /\ flattenHeaders = FALSE
    /\ headerSep = DefaultSep
    /\ tempDir = "none"
    /\ pagesList = NoPages
    /\ libraryCalled = FALSE
    /\ tables = <<>>
    /\ processed = <<>>
    /\ combined = <<>>
    /\ csv = NoCsv
    /\ exitStatus = 0 - 1
    /\ events = <<>>
    /\ df = NoFrame
    /\ arrays = <<>>
    /\ out = NoResult

\* a mutant of TempDirAfterExit: the directory is left behind
TempDirAfterExit_leak(t) == t

\* line 197: leaving the `with tempfile.TemporaryDirectory()` block, normally
\* or by the SystemExit of sys.exit, removes the directory and what is in it
TempDirAfterExit(t) == IF t \in {"empty", "pdf"} THEN "removed" ELSE t

\* the process ends with `status`; the with-block, if entered, is left
Exit(status) ==
    /\ pc' = "exited"
    /\ exitStatus' = status
    /\ tempDir' = TempDirAfterExit(tempDir)

Log(phase, outcome) == events' = Append(events, <<phase, outcome>>)

\* lines 188-190 (a2: 88-90)
CheckDependencies ==
    /\ pc = "main"
    /\ IF dependenciesAvailable
       THEN pc' = "mkdir" /\ UNCHANGED <<exitStatus, tempDir>>
       ELSE Exit(1)
    /\ UNCHANGED <<script, dependenciesAvailable, pagesArg, pageTokens, headerRows,
                   flattenHeaders, headerSep, pagesList, libraryCalled, tables,
                   processed, combined, csv, events, df, arrays, out>>

\* lines 193-194 (a2: 93-94): an exception of mkdir is not caught and ends the
\* process with a traceback and status 1
MakeOutputDir ==
    /\ pc = "mkdir"
    /\ \E ok \in BOOLEAN :
          IF ok THEN pc' = "tempdir" /\ UNCHANGED <<exitStatus, tempDir>>
          ELSE Exit(1)
    /\ UNCHANGED <<script, dependenciesAvailable, pagesArg, pageTokens, headerRows,
                   flattenHeaders, headerSep, pagesList, libraryCalled, tables,
                   processed, combined, csv, events, df, arrays, out>>

\* line 197 (a2: 97): the directory is created and the with-block entered, or
\* the creation raises, which is not caught (status 1, no directory)
CreateTempDir ==
    /\ pc = "tempdir"
    /\ \E ok \in BOOLEAN :
          IF ok THEN tempDir' = "empty" /\ pc' = "download" /\ UNCHANGED exitStatus
          ELSE Exit(1)
    /\ UNCHANGED <<script, dependenciesAvailable, pagesArg, pageTokens, headerRows,
                   flattenHeaders, headerSep, pagesList, libraryCalled, tables,
                   processed, combined, csv, events, df, arrays, out>>

\* download_pdf: the PDF is written into the directory, or sys.exit(1)
DownloadPdf ==
    /\ pc = "download"
    /\ \E ok \in BOOLEAN :
          IF ok
          THEN /\ tempDir' = "pdf"
               /\ pc' = "parse"
               /\ Log("download", "ok")
               /\ UNCHANGED exitStatus
          ELSE Log("download", "fail") /\ Exit(1)
    /\ UNCHANGED <<script, dependenciesAvailable, pagesArg, pageTokens, headerRows,
                   flattenHeaders, headerSep, pagesList, libraryCalled, tables,
                   processed, combined, csv, df, arrays, out>>

\* a mutant of ParsePagesStep: the ValueError is swallowed and the run goes on
\* with the pages parsed so far
ParsePagesStep_swallow ==
    /\ pc = "parse"
    /\ LET r == ParsePagesOf(script, pagesArg)
       IN  /\ pagesList' = [all |-> r.all, pages |-> r.pages]
           /\ pc' = "read_pdf"
           /\ Log("parse", IF r.raised THEN "fail" ELSE "ok")
           /\ UNCHANGED <<exitStatus, tempDir>>
    /\ UNCHANGED <<script, dependenciesAvailable, pagesArg, pageTokens, headerRows,
                   flattenHeaders, headerSep, libraryCalled, tables, processed,
                   combined, csv, df, arrays, out>>

\* lines 117-130 and 156-158 (a2: 43-56, 75-77): pages_list, or the ValueError
\* caught by `except Exception`, which prints and calls sys.exit(1)
ParsePagesStep ==
    /\ pc = "parse"
    /\ LET r == ParsePagesOf(script, pagesArg)
       IN  IF r.raised
           THEN Log("parse", "fail") /\ Exit(1) /\ UNCHANGED pagesList
           ELSE /\ pagesList' = [all |-> r.all, pages |-> r.pages]
                /\ pc' = "read_pdf"
                /\ Log("parse", "ok")
                /\ UNCHANGED <<exitStatus, tempDir>>
    /\ UNCHANGED <<script, dependenciesAvailable, pagesArg, pageTokens, headerRows,
                   flattenHeaders, headerSep, libraryCalled, tables, processed,
                   combined, csv, df, arrays, out>>

\* lines 135-139 (a2: 61-65): tabula.read_pdf raises, finds no table
\* (sys.exit(1), which `except Exception` does not catch), or returns tables
ReadPdf ==
    /\ pc = "read_pdf"
    /\ libraryCalled' = TRUE
    /\ \/ /\ Log("extract", "fail")
          /\ Exit(1)
          /\ UNCHANGED tables
       \/ \E k \in 0..MaxTables : \E ns \in [1..k -> 0..MaxRunRows] :
             /\ tables' = [i \in 1..k |-> RunTable(ns[i])]
             /\ IF k = 0
                THEN Log("extract", "empty") /\ Exit(1)
                ELSE /\ Log("extract", "ok")
                     /\ pc' = IF script = "extract_table" THEN "normalize" ELSE "concat"
                     /\ UNCHANGED <<exitStatus, tempDir>>
    /\ UNCHANGED <<script, dependenciesAvailable, pagesArg, pageTokens, headerRows,
                   flattenHeaders, headerSep, pagesList, processed, combined, csv,
                   df, arrays, out>>

\* a mutant of NormalizeTable: the CSV is written inside the loop, after every
\* table
NormalizeTable_writesEach ==
    /\ pc = "normalize"
    /\ Len(processed) < Len(tables)
    /\ LET r == ApplyMultirowHeader(tables[Len(processed) + 1], headerRows,
                                    flattenHeaders, headerSep)
       IN  /\ processed' = Append(processed, r.df)
           /\ csv' = [written |-> TRUE, rows |-> ConcatRows(processed')]
           /\ events' = events \o <<<<"normalize", "ok">>, <<"write", "ok">>>>
           /\ pc' = IF Len(processed') = Len(tables) THEN "concat" ELSE "normalize"
    /\ UNCHANGED <<script, dependenciesAvailable, pagesArg, pageTokens, headerRows,
                   flattenHeaders, headerSep, tempDir, pagesList, libraryCalled,
                   tables, combined, exitStatus, df, arrays, out>>

\* lines 141-146: one iteration of the loop over the tables; an exception of
\* _apply_multirow_header is caught by `except Exception` (sys.exit(1))
NormalizeTable ==
    /\ pc = "normalize"
    /\ Len(processed) < Len(tables)
    /\ IF headerRows > 0
       THEN LET r == ApplyMultirowHeader(tables[Len(processed) + 1], headerRows,
                                         flattenHeaders, headerSep)
            IN  IF r.raised
                THEN Log("normalize", "fail") /\ Exit(1) /\ UNCHANGED processed
                ELSE /\ processed' = Append(processed, r.df)
                     /\ Log("normalize", "ok")
                     /\ pc' = IF Len(processed') = Len(tables) THEN "concat"
                              ELSE "normalize"
                     /\ UNCHANGED <<exitStatus, tempDir>>
       ELSE /\ processed' = Append(processed, tables[Len(processed) + 1])
            /\ pc' = IF Len(processed') = Len(tables) THEN "concat" ELSE "normalize"
            /\ UNCHANGED <<exitStatus, tempDir, events>>
    /\ UNCHANGED <<script, dependenciesAvailable, pagesArg, pageTokens, headerRows,
                   flattenHeaders, headerSep, pagesList, libraryCalled, tables,
                   combined, csv, df, arrays, out>>

\* line 149 (a2: 68): pd.concat(..., ignore_index=True) stacks the rows of the
\* tables in order, or raises (labels it cannot align); the alignment of the
\* columns is not modelled
ConcatTables ==
    /\ pc = "concat"
    /\ \E ok \in BOOLEAN :
          IF ok
          THEN /\ combined' = ConcatRows(IF script = "extract_table" THEN processed
                                         ELSE tables)
               /\ pc' = "to_csv"
               /\ Log("concat", "ok")
               /\ UNCHANGED <<exitStatus, tempDir>>
          ELSE Log("concat", "fail") /\ Exit(1) /\ UNCHANGED combined
    /\ UNCHANGED <<script, dependenciesAvailable, pagesArg, pageTokens, headerRows,
                   flattenHeaders, headerSep, pagesList, libraryCalled, tables,
                   processed, csv, df, arrays, out>>

\* lines 152-154 (a2: 71-73): to_csv(output_csv, index=False) writes one line
\* per row of combined_df after the header, or raises
WriteCsv ==
    /\ pc = "to_csv"
    /\ \E ok \in BOOLEAN :
          IF ok
          THEN /\ csv' = [written |-> TRUE, rows |-> combined]
               /\ pc' = "leave"
               /\ Log("write", "ok")
               /\ UNCHANGED <<exitStatus, tempDir>>
          ELSE Log("write", "fail") /\ Exit(1) /\ UNCHANGED csv
    /\ UNCHANGED <<script, dependenciesAvailable, pagesArg, pageTokens, headerRows,
                   flattenHeaders, headerSep, pagesList, libraryCalled, tables,
                   processed, combined, df, arrays, out>>

\* extract_tables returns, the with-block ends, main returns: status 0
LeaveMain ==
    /\ pc = "leave"
    /\ Exit(0)
    /\ UNCHANGED <<script, dependenciesAvailable, pagesArg, pageTokens, headerRows,
                   flattenHeaders, headerSep, pagesList, libraryCalled, tables,
                   processed, combined, csv, events, df, arrays, out>>

Next ==
    \/ CheckDependencies
    \/ MakeOutputDir
    \/ CreateTempDir
    \/ DownloadPdf
    \/ ParsePagesStep
    \/ ReadPdf
    \/ NormalizeTable
    \/ ConcatTables
    \/ WriteCsv
    \/ LeaveMain

Spec == Init /\ [][Next]_vars

----------------------------------------------------------------------------
(* Properties of a run *)

Happened(phase, outcome) == \E i \in 1..Len(events) : events[i] = <<phase, outcome>>

Count(phase) == Cardinality({i \in 1..Len(events) : events[i][1] = phase})

Failed == \E i \in 1..Len(events) : events[i][2] # "ok"

\* C5: when the process has exited, the temporary directory, if the run
\* created it, is removed with the PDF in it, whatever the exit path; a run
\* that reached the download always created it.
C5_TempDirRemoved ==
    (pc = "exited") =>
        /\ tempDir \in {"none", "removed"}
        /\ events # <<>> => tempDir = "removed"

C5_Witness ==
    /\ pc = "exited"
    /\ exitStatus = 1
    /\ tempDir = "removed"
    /\ Happened("download", "ok")
    /\ Happened("write", "fail")

\* every phase succeeded: download, page parsing, extraction, the
\* normalization of every table, the concatenation and the CSV write
AllSucceeded ==
    /\ ~Failed
    /\ Happened("download", "ok")
    /\ Happened("parse", "ok")
    /\ Happened("extract", "ok")
    /\ (script = "extract_table" /\ headerRows > 0) => Count("normalize") = Len(tables)
    /\ Happened("concat", "ok")
    /\ Happened("write", "ok")
    /\ csv.written

\* C6: the exit status is 0 exactly when every phase succeeded and 1 after any
\* failure; a phase that failed is the last one of the run (nothing runs after
\* it), no phase is run twice, and the process runs on only while nothing failed.
C6_ExitStatus ==
    /\ \A i \in 1..Len(events) : events[i][2] # "ok" => i = Len(events)
    /\ \A ph \in {"download", "parse", "extract", "concat", "write"} : Count(ph) <= 1
    /\ Count("normalize") <= Len(tables)
    /\ (pc # "exited") => (exitStatus = 0 - 1 /\ ~Failed)
    /\ (pc = "exited") =>
          /\ exitStatus \in {0, 1}
          /\ exitStatus = 0 <=> AllSucceeded
          /\ Failed => exitStatus = 1

C6_Witness ==
    /\ pc = "exited"
    /\ exitStatus = 0
    /\ script = "extract_table"
    /\ headerRows = 2
    /\ Len(tables) = 2
    /\ Count("normalize") = 2

\* C8: a --pages value other than "all" with an invalid token (no page number
\* and no range lo-hi with lo <= hi) ends the run with status 1 before
\* tabula.read_pdf is called, and no CSV is written.
C8_InvalidTokenIsFatal ==
    (~pageTokens.all /\ \E i \in 1..Len(pageTokens.tokens) :
                            ~WellFormed(pageTokens.tokens[i]))
        => /\ ~libraryCalled
           /\ ~csv.written
           /\ pc = "exited" => exitStatus = 1

\* the rows a table contributes: the rows after the header rows when it has at
\* least header_rows rows, all its rows otherwise (and when header_rows is 0)
RowsKept(t) ==
    IF headerRows > 0 /\ Len(t.rows) >= headerRows
    THEN [j \in 1..(Len(t.rows) - headerRows) |-> t.rows[headerRows + j]]
    ELSE t.rows

RECURSIVE RowsOfAll(_)
RowsOfAll(ts) ==
    IF ts = <<>> THEN <<>>
    ELSE RowsOfAll(SubSeq(ts, 1, Len(ts) - 1)) \o RowsKept(ts[Len(ts)])

RECURSIVE SumAfterHeader(_)
SumAfterHeader(ts) ==
    IF ts = <<>> THEN 0
    ELSE (IF Len(ts[1].rows) > headerRows THEN Len(ts[1].rows) - headerRows ELSE 0)
            + SumAfterHeader(Tail(ts))

\* C9 as stated: the CSV has as many rows as the tables have rows after their
\* first header_rows rows.
C9_RowCountAsStated ==
    (csv.written /\ script = "extract_table") =>
        Len(csv.rows) = SumAfterHeader(tables)

\* C9 as amended: the rows of the CSV are, table after table and in their
\* order, the rows after the first header_rows rows of every table with at
\* least header_rows rows and all the rows of every table with fewer rows.
C9_RowCount ==
    (csv.written /\ script = "extract_table") =>
        /\ csv.rows = RowsOfAll(tables)
        /\ Len(csv.rows) = Len(RowsOfAll(tables))

C9_Witness ==
    /\ csv.written
    /\ script = "extract_table"
    /\ headerRows = 1
    /\ Len(tables) = 2
    /\ Len(tables[1].rows) = 2
    /\ Len(tables[2].rows) = 2
    /\ Len(csv.rows) = 2

Rank(phase) ==
    CASE phase = "download" -> 1
      [] phase = "parse" -> 2
      [] phase = "extract" -> 3
      [] phase = "normalize" -> 4
      [] phase = "concat" -> 5
      [] phase = "write" -> 6

\* C10: the phases of a run follow one another in the order download, page
\* parsing, extraction, normalization (table after table), concatenation,
\* write; extraction starts only after the download succeeded, a table is
\* normalized only after the extraction returned every table, and the CSV is
\* written only after every table was processed and every earlier phase
\* succeeded.
C10_PhaseOrder ==
    /\ \A i, j \in 1..Len(events) :
          i < j => /\ Rank(events[i][1]) <= Rank(events[j][1])
                   /\ Rank(events[i][1]) = Rank(events[j][1])
                         => events[i][1] = "normalize"
    /\ libraryCalled => Happened("download", "ok")
    /\ (processed # <<>> \/ Count("normalize") > 0) =>
          (Happened("extract", "ok") /\ tables # <<>>)
    /\ csv.written =>
          /\ ~Failed
          /\ Happened("download", "ok")
          /\ Happened("parse", "ok")
          /\ Happened("extract", "ok")
          /\ Happened("concat", "ok")
          /\ script = "extract_table" =>
                /\ Len(processed) = Len(tables)
                /\ Count("normalize") = IF headerRows > 0 THEN Len(tables) ELSE 0

C10_Witness ==
    /\ pc = "leave"
    /\ csv.written
    /\ script = "extract_table"
    /\ headerRows = 1
    /\ Len(tables) = 2
    /\ events = << <<"download", "ok">>, <<"parse", "ok">>, <<"extract", "ok">>,
                   <<"normalize", "ok">>, <<"normalize", "ok">>,
                   <<"concat", "ok">>, <<"write", "ok">> >>
====
